---- MODULE Spec2Model ----
(***************************************************************************)
(* Model of the SPMS backend: the Express handlers of routes/authRoutes.js *)
(* and of the student router (unnamed/part_001) over the two Mongoose      *)
(* collections User (models/User.js) and Project (unnamed/part_000).       *)
(*                                                                         *)
(* A handler suspends only at its awaits on the store.  The code between   *)
(* two awaits runs without interruption, so a handler of the form          *)
(*     doc = await Model.findById(id); <assignments>; await doc.save()     *)
(* is two steps: ...Find (the read resolves and the assignments run) and   *)
(* ...Save (the store applies the write and the response is sent).         *)
(* Mongoose's save() writes the modified paths of the document only.       *)
(*                                                                         *)
(* Fields no modelled handler branches on are projected away: a User keeps *)
(* username, role and assignedDeveloper, a Project keeps student, title    *)
(* (standing for the fields replaced by truthiness), amount and            *)
(* invoiceDetails with invoiceNo (standing for the String fields of the    *)
(* invoice) and isSent.  Ids are well-formed ObjectIds: a User's id is its *)
(* index in users, a Project's id its index in projects.                   *)
(***************************************************************************)
EXTENDS Integers, Sequences, FiniteSets, TLC

VARIABLES users, creator, projects, inflight, resp

vars == <<users, creator, projects, inflight, resp>>

\* ------------------------------------------------------------------ bounds
MaxUsers == 3

MaxProjects == 2

MaxInFlight == 2

\* ------------------------------------------------------------- input sets
Usernames == {"ann", "bob", "cy"}

\* A request's password, by the only property the code tests: its length.
Passwords == {"short", "long"}

UserIds == 1..MaxUsers

ProjectIds == 1..MaxProjects

Slots == 1..MaxInFlight

\* assignedDeveloper is optional: an unset reference.
NoDev == 0

\* The response of the step just taken, when it sent none.
NoResp == [op |-> "none", status |-> 0]

Idle == [op |-> "idle"]

\* ------------------------------------------------------------ documents
\* document.save() sends the paths the assignments left modified: those whose
\* value differs from the value read.
Changes(doc, new) ==
    [f \in {g \in DOMAIN doc : new[g] # doc[g]} |-> new[f]]

\* The store applies that update to the document as it is stored now.
ApplySet(stored, set) ==
    [f \in DOMAIN stored |-> IF f \in DOMAIN set THEN set[f] ELSE stored[f]]

\* ------------------------------------------------------------ User store
\* User.findOne({ username }): the id of the User with that username, 0 if none.
FindByUsername(us, name) ==
    IF \E i \in DOMAIN us : us[i].username = name
    THEN CHOOSE i \in DOMAIN us : us[i].username = name
    ELSE 0

\* The unique index on username: would storing `name` on user `self`
\* (0 for a new document) collide with another document?
UniqueViolation(us, self, name) ==
    \E i \in DOMAIN us : i # self /\ us[i].username = name

\* protect + authorizeDeveloper: the token resolves to an existing User whose
\* role is developer.
IsDeveloper(us, d) == d \in DOMAIN us /\ us[d].role = "developer"

\* The document User.create builds in POST /api/auth/register.
RegisterDoc(name) ==
    [username |-> name, role |-> "developer", assignedDeveloper |-> NoDev]

\* Mutant: the student is created without its owner.
UnownedStudentDoc(d, name) ==
    [username |-> name, role |-> "student", assignedDeveloper |-> NoDev]

\* The document User.create builds in POST /api/students.
CreateStudentDoc(d, name) ==
    [username |-> name, role |-> "student", assignedDeveloper |-> d]

\* User.find({ role: 'student', assignedDeveloper: req.user._id }).
StudentsOfDeveloper(us, d) ==
    {i \in DOMAIN us : us[i].role = "student" /\ us[i].assignedDeveloper = d}

\* Creations that passed their findOne and have not reached the store yet
\* (a creation is started only while the store, with them, is below MaxUsers).
PendingCreates ==
    Cardinality({i \in Slots : inflight[i].op \in {"register", "createStudent"}})

\* ------------------------------------------------------- /api/auth/register
RegisterFind(i, name, pw) ==
    /\ inflight[i] = Idle
    /\ UNCHANGED <<users, creator, projects>>
    /\ IF pw = "short"
       THEN /\ resp' = [op |-> "register", status |-> 400]
            /\ UNCHANGED inflight
       ELSE IF FindByUsername(users, name) # 0
       THEN /\ resp' = [op |-> "register", status |-> 400]
            /\ UNCHANGED inflight
       ELSE /\ Len(users) + PendingCreates < MaxUsers
            /\ inflight' = [inflight EXCEPT ![i] =
                               [op |-> "register", username |-> name]]
            /\ resp' = NoResp

RegisterCreate(i) ==
    /\ inflight[i].op = "register"
    /\ inflight' = [inflight EXCEPT ![i] = Idle]
    /\ UNCHANGED projects
    /\ LET name == inflight[i].username IN
       IF UniqueViolation(users, 0, name)
       THEN /\ resp' = [op |-> "register", status |-> 500]
            /\ UNCHANGED <<users, creator>>
       ELSE /\ users' = Append(users, RegisterDoc(name))
            /\ creator' = Append(creator, NoDev)
            /\ resp' = [op |-> "register", status |-> 201]

\* ------------------------------------------------------ POST /api/students
CreateStudentFind(i, d, name) ==
    /\ inflight[i] = Idle
    /\ IsDeveloper(users, d)
    /\ UNCHANGED <<users, creator, projects>>
    /\ IF FindByUsername(users, name) # 0
       THEN /\ resp' = [op |-> "createStudent", status |-> 400]
            /\ UNCHANGED inflight
       ELSE /\ Len(users) + PendingCreates < MaxUsers
            /\ inflight' = [inflight EXCEPT ![i] =
                               [op |-> "createStudent", caller |-> d,
                                username |-> name]]
            /\ resp' = NoResp

CreateStudentCreate(i) ==
    /\ inflight[i].op = "createStudent"
    /\ inflight' = [inflight EXCEPT ![i] = Idle]
    /\ UNCHANGED projects
    /\ LET name == inflight[i].username
           d == inflight[i].caller IN
       IF UniqueViolation(users, 0, name)
       THEN /\ resp' = [op |-> "createStudent", status |-> 500]
            /\ UNCHANGED <<users, creator>>
       ELSE /\ users' = Append(users, CreateStudentDoc(d, name))
            /\ creator' = Append(creator, d)
            /\ resp' = [op |-> "createStudent", status |-> 201]

\* ------------------------------------------------------- PUT /api/students/:id
\* Request bodies: username "" and assignedDeveloper NoDev stand for a field
\* that is absent (or falsy).
UpdateStudentBodies ==
    {[username |-> n, assignedDeveloper |-> NoDev] : n \in Usernames}
    \cup {[username |-> "", assignedDeveloper |-> a] : a \in UserIds}

\* x = body.f || doc.f
OrElse(given, kept, falsy) == IF given # falsy THEN given ELSE kept

\* The assignments of the handler on the document it read.
UpdateStudentDoc(doc, body) ==
    [doc EXCEPT !.username = OrElse(body.username, @, ""),
                !.assignedDeveloper = OrElse(body.assignedDeveloper, @, NoDev)]

UpdateStudentFind(i, d, id, body) ==
    /\ inflight[i] = Idle
    /\ IsDeveloper(users, d)
    /\ UNCHANGED <<users, creator, projects>>
    /\ IF id \notin DOMAIN users
       THEN /\ resp' = [op |-> "updateStudent", status |-> 404]
            /\ UNCHANGED inflight
       ELSE /\ inflight' = [inflight EXCEPT ![i] =
                               [op |-> "updateStudent", caller |-> d, target |-> id,
                                set |-> Changes(users[id],
                                                UpdateStudentDoc(users[id], body))]]
            /\ resp' = NoResp

UpdateStudentSave(i) ==
    /\ inflight[i].op = "updateStudent"
    /\ inflight' = [inflight EXCEPT ![i] = Idle]
    /\ UNCHANGED <<creator, projects>>
    /\ LET id == inflight[i].target
           set == inflight[i].set IN
       IF "username" \in DOMAIN set /\ UniqueViolation(users, id, set.username)
       THEN /\ resp' = [op |-> "updateStudent", status |-> 500]
            /\ UNCHANGED users
       ELSE /\ users' = [users EXCEPT ![id] = ApplySet(@, set)]
            /\ resp' = [op |-> "updateStudent", status |-> 200]

\* ------------------------------------------------------- GET /api/students
ListStudents(d) ==
    /\ IsDeveloper(users, d)
    /\ resp' = [op |-> "list", caller |-> d, status |-> 200,
                students |-> StudentsOfDeveloper(users, d)]
    /\ UNCHANGED <<users, creator, projects, inflight>>

\* authorizeDeveloper on a developer-only route: a student's token gets 403.
Forbidden(d) ==
    /\ d \in DOMAIN users
    /\ users[d].role # "developer"
    /\ resp' = [op |-> "forbidden", status |-> 403]
    /\ UNCHANGED <<users, creator, projects, inflight>>

\* ------------------------------------------------- the identity endpoints
InitUsers ==
    /\ users = <<>>
    /\ creator = <<>>
    /\ projects = <<>>
    /\ inflight = [i \in Slots |-> Idle]
    /\ resp = NoResp

\* Handlers run one at a time: a single request slot.
NextIdentity ==
    \/ \E name \in Usernames, pw \in Passwords : RegisterFind(1, name, pw)
    \/ RegisterCreate(1)
    \/ \E d \in UserIds, name \in Usernames : CreateStudentFind(1, d, name)
    \/ CreateStudentCreate(1)
    \/ \E d \in UserIds, id \in UserIds, body \in UpdateStudentBodies :
          UpdateStudentFind(1, d, id, body)
    \/ UpdateStudentSave(1)
    \/ \E d \in UserIds : ListStudents(d)
    \/ \E d \in UserIds : Forbidden(d)

SpecIdentity == InitUsers /\ [][NextIdentity]_vars

\* The two creation handlers, interleaved at their awaits.
NextCreate ==
    \/ \E i \in Slots, name \in Usernames, pw \in Passwords : RegisterFind(i, name, pw)
    \/ \E i \in Slots : RegisterCreate(i)
    \/ \E i \in Slots, d \in UserIds, name \in Usernames : CreateStudentFind(i, d, name)
    \/ \E i \in Slots : CreateStudentCreate(i)
    \/ \E d \in UserIds : Forbidden(d)

SpecCreate == InitUsers /\ [][NextCreate]_vars

\* ---------------------------------------------------------- Project store
Titles == {"T1", "T2"}

\* JSON values a request carries as amount ("undefined": the field is absent).
AmountInputs == {"undefined", "0", "50", "abc"}

\* NaN, the result of Number() on a value that is no number.
NaN == -1

\* Number(x)
ToNumber(x) ==
    CASE x = "0" -> 0
      [] x = "50" -> 50
      [] x = "null" -> 0
      [] OTHER -> NaN

\* Number(x) || 0
NumberOrZero(n) == IF n = NaN THEN 0 ELSE n

\* The schema's defaults for invoiceDetails ("": a String path that is unset).
DefaultInvoice == [invoiceNo |-> "", isSent |-> FALSE]

InvoiceBodies ==
    [invoiceNo : {"", "INV-1"}, isSent : {"undefined", "false", "true"}]

\* { ...req.body, isSent: sent } as the schema casts it: the body's own isSent
\* is overridden by the key that follows the spread.
InvoiceOf(body, sent) == [invoiceNo |-> body.invoiceNo, isSent |-> sent]

AssignBodies == [title : Titles \cup {""}, studentId : UserIds, amount : AmountInputs]

\* The document Project.create builds in POST /api/students/assign-project.
AssignDoc(body) ==
    [student |-> body.studentId, title |-> body.title,
     amount |-> ToNumber(body.amount), invoiceDetails |-> DefaultInvoice]

\* Mongoose's validation before a write: title is required, amount casts to
\* a Number.
Valid(doc) == doc.title # "" /\ doc.amount # NaN

\* POST /api/students/assign-project: one store operation.
AssignProject(d, body) ==
    /\ IsDeveloper(users, d)
    /\ Len(projects) < MaxProjects
    /\ UNCHANGED <<users, creator, inflight>>
    /\ IF Valid(AssignDoc(body))
       THEN /\ projects' = Append(projects, AssignDoc(body))
            /\ resp' = [op |-> "assign", caller |-> d, status |-> 201]
       ELSE /\ resp' = [op |-> "assign", caller |-> d, status |-> 500]
            /\ UNCHANGED projects

UpdateProjectBodies == [title : Titles \cup {""}, amount : AmountInputs]

\* Mutant: amount is replaced by truthiness like the other fields.
UpdateProjectDocTruthy(doc, body) ==
    [doc EXCEPT !.title = OrElse(body.title, @, ""),
                !.amount = IF body.amount \notin {"undefined", "0"}
                           THEN ToNumber(body.amount) ELSE @]

\* The assignments of PUT /api/students/project/:id.
UpdateProjectDoc(doc, body) ==
    [doc EXCEPT !.title = OrElse(body.title, @, ""),
                !.amount = IF body.amount # "undefined"
                           THEN ToNumber(body.amount) ELSE @]

\* Mutant: the draft takes isSent from the request when it carries one.
SaveBillDocFromBody(doc, body) ==
    [doc EXCEPT !.invoiceDetails =
        InvoiceOf(body, IF body.isSent = "undefined"
                        THEN doc.invoiceDetails.isSent ELSE body.isSent = "true")]

\* Mutant: the draft is stored as not sent.
SaveBillDocReset(doc, body) ==
    [doc EXCEPT !.invoiceDetails = InvoiceOf(body, FALSE)]

\* The assignment of PUT /api/students/project/:id/save-bill.
SaveBillDoc(doc, body) ==
    [doc EXCEPT !.invoiceDetails = InvoiceOf(body, doc.invoiceDetails.isSent)]

\* Mutant: send takes isSent from the request when it carries one.
SendBillDocFromBody(doc, body) ==
    [doc EXCEPT !.invoiceDetails =
        InvoiceOf(body, body.isSent # "false")]

\* The assignment of PUT /api/students/project/:id/send-bill.
SendBillDoc(doc, body) ==
    [doc EXCEPT !.invoiceDetails = InvoiceOf(body, TRUE)]

\* The three handlers of the form findById / assign / save differ in their
\* assignments only.
Assigned(op, doc, body) ==
    CASE op = "updateProject" -> UpdateProjectDoc(doc, body)
      [] op = "saveBill" -> SaveBillDoc(doc, body)
      [] op = "sendBill" -> SendBillDoc(doc, body)

\* findById resolves, the assignments run and save() validates the document.
ProjectFind(op, i, d, id, body) ==
    /\ inflight[i] = Idle
    /\ IsDeveloper(users, d)
    /\ UNCHANGED <<users, creator, projects>>
    /\ IF id \notin DOMAIN projects
       THEN /\ resp' = [op |-> op, target |-> id, body |-> body, status |-> 404]
            /\ UNCHANGED inflight
       ELSE IF ~Valid(Assigned(op, projects[id], body))
       THEN /\ resp' = [op |-> op, target |-> id, body |-> body, status |-> 500]
            /\ UNCHANGED inflight
       ELSE /\ inflight' = [inflight EXCEPT ![i] =
                               [op |-> op, caller |-> d, target |-> id, body |-> body,
                                set |-> Changes(projects[id],
                                                Assigned(op, projects[id], body))]]
            /\ resp' = NoResp

\* The store applies the write of save() and the handler answers.
ProjectSave(op, i) ==
    /\ inflight[i].op = op
    /\ inflight' = [inflight EXCEPT ![i] = Idle]
    /\ projects' = [projects EXCEPT ![inflight[i].target] = ApplySet(@, inflight[i].set)]
    /\ resp' = [op |-> op, target |-> inflight[i].target,
                body |-> inflight[i].body, status |-> 200]
    /\ UNCHANGED <<users, creator>>

UpdateProjectFind(i, d, id, body) == ProjectFind("updateProject", i, d, id, body)

UpdateProjectSave(i) == ProjectSave("updateProject", i)

SaveBillFind(i, d, id, body) == ProjectFind("saveBill", i, d, id, body)

SaveBillSave(i) == ProjectSave("saveBill", i)

SendBillFind(i, d, id, body) == ProjectFind("sendBill", i, d, id, body)

SendBillSave(i) == ProjectSave("sendBill", i)

\* ------------------------------------------- GET /api/students/stats/global
\* Project.find({ student: { $in: studentIds } }), in store order.
ProjectsOfAny(ps, studentIds) ==
    SelectSeq(ps, LAMBDA p : TRUE)

ProjectsOf(ps, studentIds) ==
    SelectSeq(ps, LAMBDA p : p.student \in studentIds)

\* projects.reduce((acc, curr) => acc + (Number(curr.amount) || 0), 0)
RECURSIVE Revenue(_)
Revenue(ps) ==
    IF ps = <<>> THEN 0
    ELSE Revenue(SubSeq(ps, 1, Len(ps) - 1)) + NumberOrZero(ps[Len(ps)].amount)

StatsFindStudents(i, d) ==
    /\ inflight[i] = Idle
    /\ IsDeveloper(users, d)
    /\ inflight' = [inflight EXCEPT ![i] =
                       [op |-> "stats", caller |-> d,
                        studentIds |-> StudentsOfDeveloper(users, d)]]
    /\ resp' = NoResp
    /\ UNCHANGED <<users, creator, projects>>

StatsFindProjects(i) ==
    /\ inflight[i].op = "stats"
    /\ inflight' = [inflight EXCEPT ![i] = Idle]
    /\ LET found == ProjectsOf(projects, inflight[i].studentIds) IN
       resp' = [op |-> "stats", caller |-> inflight[i].caller, status |-> 200,
                stats |-> [totalStudents |-> Cardinality(inflight[i].studentIds),
                           totalProjects |-> Len(found),
                           totalRevenue |-> Revenue(found)]]
    /\ UNCHANGED <<users, creator, projects>>

\* ---------------------------------------------------- the project endpoints
\* The store after two developers registered and the first created a student
\* (a state SpecIdentity reaches).
SeedUsers ==
    <<RegisterDoc("ann"), RegisterDoc("bob"), CreateStudentDoc(1, "cy")>>

InitProjects ==
    /\ users = SeedUsers
    /\ creator = <<NoDev, NoDev, 1>>
    /\ projects = <<>>
    /\ inflight = [i \in Slots |-> Idle]
    /\ resp = NoResp

\* Handlers run one at a time: a single request slot.
NextProjects ==
    \/ \E d \in UserIds, body \in AssignBodies : AssignProject(d, body)
    \/ \E d \in UserIds, id \in ProjectIds, body \in UpdateProjectBodies :
          UpdateProjectFind(1, d, id, body)
    \/ UpdateProjectSave(1)
    \/ \E d \in UserIds, id \in ProjectIds, body \in InvoiceBodies :
          SaveBillFind(1, d, id, body)
    \/ SaveBillSave(1)
    \/ \E d \in UserIds, id \in ProjectIds, body \in InvoiceBodies :
          SendBillFind(1, d, id, body)
    \/ SendBillSave(1)
    \/ \E d \in UserIds : StatsFindStudents(1, d)
    \/ StatsFindProjects(1)
    \/ \E d \in UserIds : Forbidden(d)

SpecProjects == InitProjects /\ [][NextProjects]_vars

\* The store after two projects were assigned to the student (a state
\* SpecProjects reaches).
SeedProjects ==
    <<AssignDoc([title |-> "T1", studentId |-> 3, amount |-> "50"]),
      AssignDoc([title |-> "T2", studentId |-> 3, amount |-> "0"])>>

InitInvoice ==
    /\ users = SeedUsers
    /\ creator = <<NoDev, NoDev, 1>>
    /\ projects = SeedProjects
    /\ inflight = [i \in Slots |-> Idle]
    /\ resp = NoResp

\* The two invoice handlers, interleaved at their awaits.
NextInvoice ==
    \/ \E i \in Slots, d \in UserIds, id \in ProjectIds, body \in InvoiceBodies :
          SaveBillFind(i, d, id, body)
    \/ \E i \in Slots : SaveBillSave(i)
    \/ \E i \in Slots, d \in UserIds, id \in ProjectIds, body \in InvoiceBodies :
          SendBillFind(i, d, id, body)
    \/ \E i \in Slots : SendBillSave(i)

SpecInvoice == InitInvoice /\ [][NextInvoice]_vars

\* ------------------------------------------------------------- properties
IsSent(ps, p) == ps[p].invoiceDetails.isSent

IsStudent(us, s) == s \in DOMAIN us /\ us[s].role = "student"

\* The developer a student (or a project's student) belongs to.
OwnerOf(us, s) == IF s \in DOMAIN us THEN us[s].assignedDeveloper ELSE NoDev

\* C1: with the handlers run one at a time, no step takes the stored isSent of
\* a project from true back to false, whatever the requests carry.
C1_IsSentMonotonic ==
    [][\A p \in DOMAIN projects : IsSent(projects, p) => IsSent(projects', p)]_vars

\* A draft carrying isSent: false was saved on a sent project, which is still sent.
C1_Witness ==
    /\ resp.op = "saveBill" /\ resp.status = 200
    /\ resp.body.isSent = "false"
    /\ IsSent(projects, resp.target)

\* C2: with save-bill and send-bill interleaved at their store reads and
\* writes, no write of either handler takes the stored isSent of a project
\* from true back to false.
C2_InterleavedMonotonic ==
    [][\A i \in Slots :
          (SaveBillSave(i) \/ SendBillSave(i)) =>
              (IsSent(projects, inflight[i].target)
                  => IsSent(projects', inflight[i].target))]_vars

\* C3: a send-bill request on an existing project is answered 200 and leaves
\* the stored isSent true; on a project that does not exist it is answered
\* 404 and no project changes.
C3_SendForcesSent ==
    [][resp'.op = "sendBill" =>
          IF resp'.target \in DOMAIN projects
          THEN resp'.status = 200 /\ IsSent(projects', resp'.target)
          ELSE resp'.status = 404 /\ projects' = projects]_vars

\* A send carrying isSent: false was answered, and the project is sent.
C3_Witness ==
    /\ resp.op = "sendBill" /\ resp.status = 200
    /\ resp.body.isSent = "false"
    /\ IsSent(projects, resp.target)

\* C4: a save-bill request on an existing project stores the supplied invoice
\* fields with the isSent the project had before the call, and changes
\* nothing else.
C4_DraftKeepsSent ==
    [][(resp'.op = "saveBill" /\ resp'.status = 200) =>
          LET p == resp'.target IN
          /\ projects'[p].invoiceDetails =
                [invoiceNo |-> resp'.body.invoiceNo, isSent |-> IsSent(projects, p)]
          /\ projects' = [projects EXCEPT
                             ![p].invoiceDetails = projects'[p].invoiceDetails]]_vars

\* A draft carrying isSent: true was saved on a project that is still not sent.
C4_Witness ==
    /\ resp.op = "saveBill" /\ resp.status = 200
    /\ resp.body.isSent = "true"
    /\ ~IsSent(projects, resp.target)

\* C5: a step changes a student's project (an assignment, an update, a draft,
\* a send) or a student (an update) only when the calling developer owns the
\* student.
C5_OwnershipChecked ==
    [][/\ \A d \in UserIds, body \in AssignBodies :
             (AssignProject(d, body) /\ projects' # projects
                 /\ IsStudent(users, body.studentId))
                 => OwnerOf(users, body.studentId) = d
       /\ \A i \in Slots :
             ((UpdateProjectSave(i) \/ SaveBillSave(i) \/ SendBillSave(i))
                 /\ projects' # projects
                 /\ IsStudent(users, projects[inflight[i].target].student))
                 => OwnerOf(users, projects[inflight[i].target].student)
                       = inflight[i].caller
       /\ \A i \in Slots :
             (UpdateStudentSave(i) /\ users' # users
                 /\ IsStudent(users, inflight[i].target))
                 => OwnerOf(users, inflight[i].target) = inflight[i].caller]_vars

\* C6 as stated: the listing is exactly the caller's students, and a student
\* created by D is D's, listed for D and for no other developer, in every
\* later state.
C6_CreatedStaysOwned ==
    /\ resp.op = "list" =>
          resp.students = {u \in DOMAIN users : /\ users[u].role = "student"
                                                /\ users[u].assignedDeveloper = resp.caller}
    /\ \A s \in DOMAIN users :
          creator[s] # NoDev =>
              /\ users[s].assignedDeveloper = creator[s]
              /\ \A d \in DOMAIN users :
                    users[d].role = "developer" =>
                        (s \in StudentsOfDeveloper(users, d) <=> d = creator[s])

\* C6 as amended: the listing is exactly the caller's students; a student is
\* D's, listed for D and for no other developer when D creates it; and its
\* assignedDeveloper changes only by an update-student request.
C6_OwnedUntilReassigned ==
    [][/\ resp'.op = "list" =>
             resp'.students = {u \in DOMAIN users' :
                                  /\ users'[u].role = "student"
                                  /\ users'[u].assignedDeveloper = resp'.caller}
       /\ \A i \in Slots :
             (CreateStudentCreate(i) /\ resp'.status = 201) =>
                 LET s == Len(users') IN
                 /\ users'[s].role = "student"
                 /\ users'[s].assignedDeveloper = inflight[i].caller
                 /\ \A d \in DOMAIN users' :
                       users'[d].role = "developer" =>
                           (s \in StudentsOfDeveloper(users', d)
                               <=> d = inflight[i].caller)
       /\ \A s \in DOMAIN users :
             users'[s].assignedDeveloper # users[s].assignedDeveloper =>
                 resp' = [op |-> "updateStudent", status |-> 200]]_vars

\* A developer has just created a student while another developer exists.
C6_Witness ==
    /\ resp = [op |-> "createStudent", status |-> 201]
    /\ Len(users) = 3
    /\ users[1].role = "developer" /\ users[2].role = "developer"
    /\ creator[3] = 2 /\ StudentsOfDeveloper(users, 2) = {3}

\* C7: no developer has assignedDeveloper set.
C7_DeveloperUnassigned ==
    \A u \in DOMAIN users :
        users[u].role = "developer" => users[u].assignedDeveloper = NoDev

UniqueUsernames(us) ==
    \A a, b \in DOMAIN us : us[a].username = us[b].username => a = b

\* C8: a step of a creation (register, create-student) whose username is in
\* the store is answered 400 and creates no User, and usernames stay unique.
C8_DuplicateRejected ==
    [][/\ \A i \in Slots, name \in Usernames, pw \in Passwords :
             (RegisterFind(i, name, pw) /\ FindByUsername(users, name) # 0)
                 => resp'.status = 400 /\ users' = users
       /\ \A i \in Slots, d \in UserIds, name \in Usernames :
             (CreateStudentFind(i, d, name) /\ FindByUsername(users, name) # 0)
                 => resp'.status = 400 /\ users' = users
       /\ \A i \in Slots :
             ((RegisterCreate(i) \/ CreateStudentCreate(i))
                 /\ FindByUsername(users, inflight[i].username) # 0)
                 => resp'.status = 400 /\ users' = users
       /\ UniqueUsernames(users')]_vars

RECURSIVE SumAmounts(_, _)
SumAmounts(ps, ids) ==
    IF ids = {} THEN 0
    ELSE LET p == CHOOSE q \in ids : TRUE IN
         (IF ps[p].amount = NaN THEN 0 ELSE ps[p].amount)
             + SumAmounts(ps, ids \ {p})

====
